---- MODULE Spec2Model ----
(***************************************************************************)
(* AuthState and AuthMiddleware of example/fastapi_client/auth.py.         *)
(*                                                                         *)
(* Every request that goes through the middleware is one coroutine         *)
(* (AuthMiddleware.__call__).  The coroutines share the one AuthState of   *)
(* the middleware and interleave at their await points only, so one action *)
(* of the model is the code that runs between two awaits.                  *)
(***************************************************************************)
EXTENDS Naturals, Sequences, FiniteSets, TLC

\* ---------------------------------------------------------------- bounds
NumReq == 2          \* coroutines that may be in flight at the same time
MaxIntercepts == 2   \* calls of the middleware over the whole run

\* ------------------------------------------------------------- constants
HTTP_401_UNAUTHORIZED == 401

None == "None"

Procs == 1..NumReq

\* status codes the downstream handler answers with
Statuses == {200, HTTP_401_UNAUTHORIZED}

\* the authorization header the caller may have put on the request
CallerHeaders == {None, "custom"}

\* values AuthState is constructed with
InitUsernames == {None, "alice"}
InitPasswords == {None, "secret"}
InitAccessTokens == {None, "T0"}
InitRefreshTokens == {None, "R0"}
InitScopes == {None, "S0"}

\* TokenSuccessResponse(access_token, refresh_token, scope)
TokenSuccessResponse(a, r, s) ==
    [type |-> "TokenSuccessResponse", access_token |-> a, refresh_token |-> r,
     scope |-> s]

\* the token responses the token endpoint may hand out: a refresh token and
\* a scope are optional
TokenSuccessResponses ==
    {TokenSuccessResponse("T1", "R1", "S1"),
     TokenSuccessResponse("T2", None, None)}

TokenErrorResponse ==
    [type |-> "TokenErrorResponse", access_token |-> None,
     refresh_token |-> None, scope |-> None]

TokenValues == TokenSuccessResponses \cup {TokenErrorResponse}

\* the Python value None where a token response is expected
NoTokens ==
    [type |-> "NoneType", access_token |-> None, refresh_token |-> None,
     scope |-> None]

\* exceptions the token endpoint call may raise
Errors == {"UnexpectedResponse", "ConnectError"}

\* exceptions call_next may raise
NextErrors == {"ConnectError"}

\* the Python value None where a token request is expected
NoRequest ==
    [type |-> "NoneType", username |-> None, password |-> None,
     refresh_token |-> None, scope |-> None]

\* no response object (the local variable is not bound yet)
NoResponse == [status |-> 0, call |-> 0]

VARIABLES
    auth_state,   \* the AuthState of the middleware
    pc,           \* where each coroutine is suspended
    headers,      \* request.headers["authorization"] of each request
    response,     \* local variable response of __call__
    tokens,       \* local variable tokens of __call__
    payload,      \* the token request in flight at the token endpoint
    result,       \* the response __call__ returned
    raised,       \* the exception that left __call__
    started,      \* number of requests made so far
    trace,        \* history: the calls the current intercept made and how
                  \* each ended: "next" then "next_ret" or "next_raise";
                  \* "refresh" or "login" then the type of the value returned
                  \* or the exception raised
    last_exchange \* history: the access token of the last
                  \* TokenSuccessResponse the token endpoint returned, or
                  \* the one the state was constructed with

vars ==
    <<auth_state, pc, headers, response, tokens, payload, result, raised,
      started, trace, last_exchange>>

\* ------------------------------------------------------------- AuthState

access_token_request(s) ==
    IF s.username = None \/ s.password = None
    THEN NoRequest
    ELSE [type |-> "AccessTokenRequest", username |-> s.username,
          password |-> s.password, refresh_token |-> None, scope |-> s.scope]

\* mutant: the request is built without looking at refresh_token
refresh_token_requestUnchecked(s) ==
    [type |-> "RefreshTokenRequest", username |-> None, password |-> None,
     refresh_token |-> s.refresh_token, scope |-> s.scope]

refresh_token_request(s) ==
    IF s.refresh_token = None
    THEN NoRequest
    ELSE [type |-> "RefreshTokenRequest", username |-> None,
          password |-> None, refresh_token |-> s.refresh_token,
          scope |-> s.scope]

\* mutant: the access token of the response is not stored
updateSkipsAccessToken(s, token_success_response) ==
    [s EXCEPT !.refresh_token = token_success_response.refresh_token,
              !.scope = token_success_response.scope]

\* mutant: the old refresh token is kept when the response carries none
updateKeepsRefreshToken(s, token_success_response) ==
    [s EXCEPT !.access_token = token_success_response.access_token,
              !.refresh_token =
                  IF token_success_response.refresh_token = None
                  THEN s.refresh_token
                  ELSE token_success_response.refresh_token,
              !.scope = token_success_response.scope]

\* mutant: the password is dropped once tokens have been obtained
updateDropsPassword(s, token_success_response) ==
    [s EXCEPT !.password = None,
              !.access_token = token_success_response.access_token,
              !.refresh_token = token_success_response.refresh_token,
              !.scope = token_success_response.scope]

\* mutant: the update is cut short after its first assignment
updatePartial(s, token_success_response) ==
    [s EXCEPT !.access_token = token_success_response.access_token]

\* mutant: a field the response does not carry keeps its old value
updateMerging(s, token_success_response) ==
    [s EXCEPT !.access_token = token_success_response.access_token,
              !.refresh_token =
                  IF token_success_response.refresh_token = None
                  THEN s.refresh_token
                  ELSE token_success_response.refresh_token,
              !.scope =
                  IF token_success_response.scope = None
                  THEN s.scope
                  ELSE token_success_response.scope]

update(s, token_success_response) ==
    [s EXCEPT !.access_token = token_success_response.access_token,
              !.refresh_token = token_success_response.refresh_token,
              !.scope = token_success_response.scope]

\* --------------------------------------------------------- AuthMiddleware

\* f"bearer {token}"
BearerValue(token) == "bearer " \o token

\* mutant: the header is replaced whatever the replace flag says
set_access_headerAlwaysReplace(token, header, replace) == BearerValue(token)

\* the authorization header after set_access_header(token, request, replace)
set_access_header(token, header, replace) ==
    IF replace
    THEN BearerValue(token)
    ELSE IF header = None THEN BearerValue(token) ELSE header

\* mutant: no exception is suppressed
SuppressedNothing(e) == FALSE

\* mutant: suppress(Exception)
SuppressedEverything(e) == TRUE

\* with suppress(UnexpectedResponse)
Suppressed(e) == e = "UnexpectedResponse"

\* isinstance(token_response, TokenSuccessResponse)
IsTokenSuccess(v) == v.type = "TokenSuccessResponse"

\* mutant: the comparison of the status code inverted
IsUnauthorizedInverted(status) == status # HTTP_401_UNAUTHORIZED

\* response.status_code != HTTP_401_UNAUTHORIZED is false
IsUnauthorized(status) == status = HTTP_401_UNAUTHORIZED

Init ==
    /\ auth_state \in
          [username : InitUsernames, password : InitPasswords,
           access_token : InitAccessTokens, refresh_token : InitRefreshTokens,
           scope : InitScopes]
    /\ pc = [p \in Procs |-> "idle"]
    /\ headers = [p \in Procs |-> None]
    /\ response = [p \in Procs |-> NoResponse]
    /\ tokens = [p \in Procs |-> NoTokens]
    /\ payload = [p \in Procs |-> NoRequest]
    /\ result = [p \in Procs |-> NoResponse]
    /\ raised = [p \in Procs |-> None]
    /\ started = 0
    /\ last_exchange = auth_state.access_token
    /\ trace = [p \in Procs |-> <<>>]

\* The caller builds a request, with or without an authorization header.
\* Coroutines are numbered in the order they are first used.
NewRequest(p, h) ==
    /\ pc[p] \in {"idle", "done", "raised"}
    /\ \A q \in Procs : q < p => pc[q] # "idle"
    /\ started < MaxIntercepts
    /\ started' = started + 1
    /\ pc' = [pc EXCEPT ![p] = "ready"]
    /\ headers' = [headers EXCEPT ![p] = h]
    /\ response' = [response EXCEPT ![p] = NoResponse]
    /\ tokens' = [tokens EXCEPT ![p] = NoTokens]
    /\ payload' = [payload EXCEPT ![p] = NoRequest]
    /\ result' = [result EXCEPT ![p] = NoResponse]
    /\ raised' = [raised EXCEPT ![p] = None]
    /\ trace' = [trace EXCEPT ![p] = <<>>]
    /\ UNCHANGED <<auth_state, last_exchange>>

\* __call__ up to the first await: attach the token, start call_next.
Call(p) ==
    /\ pc[p] = "ready"
    /\ UNCHANGED last_exchange
    /\ LET access_token == auth_state.access_token
           h == IF access_token # None
                THEN set_access_header(access_token, headers[p], FALSE)
                ELSE headers[p]
       IN headers' = [headers EXCEPT ![p] = h]
    /\ pc' = [pc EXCEPT ![p] = "next1"]
    /\ trace' = [trace EXCEPT ![p] = <<"next">>]
    /\ UNCHANGED <<auth_state, response, tokens, payload, result, raised, started>>

\* return response (the original response, no retry)
ReturnResponse(p, tr) ==
    /\ pc' = [pc EXCEPT ![p] = "done"]
    /\ result' = [result EXCEPT ![p] = response'[p]]
    /\ payload' = [payload EXCEPT ![p] = NoRequest]
    /\ trace' = [trace EXCEPT ![p] = tr]
    /\ UNCHANGED <<auth_state, headers, tokens, raised, started>>

\* login() up to its await, and the rest of __call__ when login() returns
\* None without awaiting
AttemptLogin(p, tr) ==
    LET access_token_req == access_token_request(auth_state)
    IN IF access_token_req = NoRequest
       THEN ReturnResponse(p, tr)
       ELSE /\ pc' = [pc EXCEPT ![p] = "login"]
            /\ payload' = [payload EXCEPT ![p] = access_token_req]
            /\ trace' = [trace EXCEPT ![p] = Append(tr, "login")]
            /\ UNCHANGED <<auth_state, headers, tokens, result, raised, started>>

\* mutant: login() is called without trying refresh() first
AttemptRefreshSkipped(p, tr) == AttemptLogin(p, tr)

\* mutant: a single-flight guard, no exchange while another coroutine's
\* token call is in flight
AttemptRefreshSingleFlight(p, tr) ==
    LET refresh_token_req == refresh_token_request(auth_state)
    IN IF \E q \in Procs \ {p} : pc[q] \in {"refresh", "login"}
       THEN ReturnResponse(p, tr)
       ELSE IF refresh_token_req = NoRequest
       THEN AttemptLogin(p, tr)
       ELSE /\ pc' = [pc EXCEPT ![p] = "refresh"]
            /\ payload' = [payload EXCEPT ![p] = refresh_token_req]
            /\ trace' = [trace EXCEPT ![p] = Append(tr, "refresh")]
            /\ UNCHANGED <<auth_state, headers, tokens, result, raised, started>>

\* refresh() up to its await; login() follows when refresh() returns None
\* without awaiting
AttemptRefresh(p, tr) ==
    LET refresh_token_req == refresh_token_request(auth_state)
    IN IF refresh_token_req = NoRequest
       THEN AttemptLogin(p, tr)
       ELSE /\ pc' = [pc EXCEPT ![p] = "refresh"]
            /\ payload' = [payload EXCEPT ![p] = refresh_token_req]
            /\ trace' = [trace EXCEPT ![p] = Append(tr, "refresh")]
            /\ UNCHANGED <<auth_state, headers, tokens, result, raised, started>>

\* an exception leaves __call__
Propagate(p, e, tr) ==
    /\ pc' = [pc EXCEPT ![p] = "raised"]
    /\ raised' = [raised EXCEPT ![p] = e]
    /\ payload' = [payload EXCEPT ![p] = NoRequest]
    /\ trace' = [trace EXCEPT ![p] = tr]
    /\ UNCHANGED <<auth_state, headers, response, tokens, result, started>>

\* mutant: the header of the retry is set with replace=False
UseTokensSetDefault(p, token_response, tr) ==
    /\ auth_state' = update(auth_state, token_response)
    /\ tokens' = [tokens EXCEPT ![p] = token_response]
    /\ LET h == set_access_header(token_response.access_token, headers[p], FALSE)
       IN headers' = [headers EXCEPT ![p] = h]
    /\ pc' = [pc EXCEPT ![p] = "next2"]
    /\ payload' = [payload EXCEPT ![p] = NoRequest]
    /\ trace' = [trace EXCEPT ![p] = Append(tr, "next")]
    /\ UNCHANGED <<response, result, raised, started>>

\* mutant: the header of the retry is built from the access token the state
\* held before the update, not from the token response
UseTokensStaleHeader(p, token_response, tr) ==
    /\ auth_state' = update(auth_state, token_response)
    /\ tokens' = [tokens EXCEPT ![p] = token_response]
    /\ LET h == IF auth_state.access_token # None
                THEN set_access_header(auth_state.access_token, headers[p], TRUE)
                ELSE headers[p]
       IN headers' = [headers EXCEPT ![p] = h]
    /\ pc' = [pc EXCEPT ![p] = "next2"]
    /\ payload' = [payload EXCEPT ![p] = NoRequest]
    /\ trace' = [trace EXCEPT ![p] = Append(tr, "next")]
    /\ UNCHANGED <<response, result, raised, started>>

\* mutant: a coroutine does not overwrite the tokens another coroutine in
\* flight has stored (the first writer wins)
UseTokensFirstWriter(p, token_response, tr) ==
    /\ auth_state' =
          IF \E q \in Procs \ {p} : pc[q] = "next2"
          THEN auth_state
          ELSE update(auth_state, token_response)
    /\ tokens' = [tokens EXCEPT ![p] = token_response]
    /\ LET h == set_access_header(token_response.access_token, headers[p], TRUE)
       IN headers' = [headers EXCEPT ![p] = h]
    /\ pc' = [pc EXCEPT ![p] = "next2"]
    /\ payload' = [payload EXCEPT ![p] = NoRequest]
    /\ trace' = [trace EXCEPT ![p] = Append(tr, "next")]
    /\ UNCHANGED <<response, result, raised, started>>

\* a token response was obtained (tokens is truthy): update the state,
\* replace the header, retry
UseTokens(p, token_response, tr) ==
    /\ auth_state' = update(auth_state, token_response)
    /\ tokens' = [tokens EXCEPT ![p] = token_response]
    /\ LET h == set_access_header(token_response.access_token, headers[p], TRUE)
       IN headers' = [headers EXCEPT ![p] = h]
    /\ pc' = [pc EXCEPT ![p] = "next2"]
    /\ payload' = [payload EXCEPT ![p] = NoRequest]
    /\ trace' = [trace EXCEPT ![p] = Append(tr, "next")]
    /\ UNCHANGED <<response, result, raised, started>>

\* the first call_next returns
Next1Return(p, status) ==
    /\ pc[p] = "next1"
    /\ UNCHANGED last_exchange
    /\ response' = [response EXCEPT ![p] = [status |-> status, call |-> 1]]
    /\ LET tr == Append(trace[p], "next_ret")
       IN IF ~IsUnauthorized(status)
          THEN ReturnResponse(p, tr)
          ELSE AttemptRefresh(p, tr)

\* the token endpoint answers the refresh request with a value
RefreshReturn(p, v) ==
    /\ pc[p] = "refresh"
    /\ last_exchange' =
          IF v.type = "TokenSuccessResponse" THEN v.access_token
          ELSE last_exchange
    /\ UNCHANGED response
    /\ LET tr == Append(trace[p], v.type)
       IN IF IsTokenSuccess(v)
          THEN UseTokens(p, v, tr)
          ELSE AttemptLogin(p, tr)

\* mutant: a rejected refresh removes the refresh token from the state
RefreshRaiseClearsToken(p, e) ==
    /\ pc[p] = "refresh"
    /\ UNCHANGED last_exchange
    /\ UNCHANGED response
    /\ LET tr == Append(trace[p], e)
           access_token_req == access_token_request(auth_state)
       IN IF ~Suppressed(e)
          THEN Propagate(p, e, tr)
          ELSE /\ auth_state' = [auth_state EXCEPT !.refresh_token = None]
               /\ IF access_token_req = NoRequest
                  THEN /\ pc' = [pc EXCEPT ![p] = "done"]
                       /\ result' = [result EXCEPT ![p] = response[p]]
                       /\ payload' = [payload EXCEPT ![p] = NoRequest]
                       /\ trace' = [trace EXCEPT ![p] = tr]
                  ELSE /\ pc' = [pc EXCEPT ![p] = "login"]
                       /\ payload' = [payload EXCEPT ![p] = access_token_req]
                       /\ trace' = [trace EXCEPT ![p] = Append(tr, "login")]
                       /\ UNCHANGED result
               /\ UNCHANGED <<headers, tokens, raised, started>>

\* mutant: a suppressed refresh failure ends the recovery, login() is skipped
RefreshRaiseNoFallback(p, e) ==
    /\ pc[p] = "refresh"
    /\ UNCHANGED last_exchange
    /\ UNCHANGED response
    /\ LET tr == Append(trace[p], e)
       IN IF Suppressed(e)
          THEN ReturnResponse(p, tr)
          ELSE Propagate(p, e, tr)

\* the refresh request raises
RefreshRaise(p, e) ==
    /\ pc[p] = "refresh"
    /\ UNCHANGED last_exchange
    /\ UNCHANGED response
    /\ LET tr == Append(trace[p], e)
       IN IF Suppressed(e)
          THEN AttemptLogin(p, tr)
          ELSE Propagate(p, e, tr)

\* the token endpoint answers the login request with a value
LoginReturn(p, v) ==
    /\ pc[p] = "login"
    /\ last_exchange' =
          IF v.type = "TokenSuccessResponse" THEN v.access_token
          ELSE last_exchange
    /\ UNCHANGED response
    /\ LET tr == Append(trace[p], v.type)
       IN IF IsTokenSuccess(v)
          THEN UseTokens(p, v, tr)
          ELSE ReturnResponse(p, tr)

\* the login request raises
LoginRaise(p, e) ==
    /\ pc[p] = "login"
    /\ UNCHANGED last_exchange
    /\ UNCHANGED response
    /\ LET tr == Append(trace[p], e)
       IN IF Suppressed(e)
          THEN ReturnResponse(p, tr)
          ELSE Propagate(p, e, tr)

\* mutant: a 401 on the retry runs __call__ again on the same request
Next2ReturnReenter(p, status) ==
    /\ pc[p] = "next2"
    /\ UNCHANGED last_exchange
    /\ IF ~IsUnauthorized(status)
       THEN /\ pc' = [pc EXCEPT ![p] = "done"]
            /\ result' = [result EXCEPT ![p] = [status |-> status, call |-> 2]]
            /\ trace' = [trace EXCEPT ![p] = Append(trace[p], "next_ret")]
            /\ UNCHANGED <<response, tokens>>
       ELSE /\ pc' = [pc EXCEPT ![p] = "next1"]
            /\ response' = [response EXCEPT ![p] = NoResponse]
            /\ tokens' = [tokens EXCEPT ![p] = NoTokens]
            /\ trace' = [trace EXCEPT ![p] = <<"next">>]
            /\ UNCHANGED result
    /\ UNCHANGED <<auth_state, headers, payload, raised, started>>

\* mutant: a 401 on the retry starts the recovery again
Next2ReturnRetrying(p, status) ==
    /\ pc[p] = "next2"
    /\ UNCHANGED last_exchange
    /\ response' = [response EXCEPT ![p] = [status |-> status, call |-> 2]]
    /\ LET tr == Append(trace[p], "next_ret")
       IN IF ~IsUnauthorized(status)
          THEN ReturnResponse(p, tr)
          ELSE AttemptRefresh(p, tr)

\* mutant: the retry is awaited but the first response is returned
Next2ReturnOriginal(p, status) ==
    /\ pc[p] = "next2"
    /\ UNCHANGED last_exchange
    /\ pc' = [pc EXCEPT ![p] = "done"]
    /\ result' = [result EXCEPT ![p] = response[p]]
    /\ trace' = [trace EXCEPT ![p] = Append(trace[p], "next_ret")]
    /\ UNCHANGED <<auth_state, headers, response, tokens, payload, raised,
                   started>>

\* the second call_next returns: its response is the result
Next2Return(p, status) ==
    /\ pc[p] = "next2"
    /\ UNCHANGED last_exchange
    /\ pc' = [pc EXCEPT ![p] = "done"]
    /\ result' = [result EXCEPT ![p] = [status |-> status, call |-> 2]]
    /\ trace' = [trace EXCEPT ![p] = Append(trace[p], "next_ret")]
    /\ UNCHANGED <<auth_state, headers, response, tokens, payload, raised,
                   started>>

\* call_next raises: nothing in __call__ catches it
NextRaise(p, e) ==
    /\ pc[p] \in {"next1", "next2"}
    /\ UNCHANGED last_exchange
    /\ UNCHANGED response
    /\ Propagate(p, e, Append(trace[p], "next_raise"))

Next ==
    \E p \in Procs :
        \/ \E h \in CallerHeaders : NewRequest(p, h)
        \/ Call(p)
        \/ \E status \in Statuses : Next1Return(p, status)
        \/ \E v \in TokenValues : RefreshReturn(p, v)
        \/ \E e \in Errors : RefreshRaise(p, e)
        \/ \E v \in TokenValues : LoginReturn(p, v)
        \/ \E e \in Errors : LoginRaise(p, e)
        \/ \E status \in Statuses : Next2Return(p, status)
        \/ \E e \in NextErrors : NextRaise(p, e)

Spec == Init /\ [][Next]_vars

\* the call coroutine p awaits returns or raises
CallEnds(p) ==
    \/ \E status \in Statuses : Next1Return(p, status)
    \/ \E v \in TokenValues : RefreshReturn(p, v)
    \/ \E e \in Errors : RefreshRaise(p, e)
    \/ \E v \in TokenValues : LoginReturn(p, v)
    \/ \E e \in Errors : LoginRaise(p, e)
    \/ \E status \in Statuses : Next2Return(p, status)
    \/ \E e \in NextErrors : NextRaise(p, e)

\* every awaited call ends: the event loop resumes the coroutine
LiveSpec == Spec /\ \A p \in Procs : WF_vars(CallEnds(p))

\* ------------------------------------------------------------------------
\* Properties
\* ------------------------------------------------------------------------

Range(seq) == {seq[i] : i \in 1..Len(seq)}

Count(seq, x) == Cardinality({i \in 1..Len(seq) : seq[i] = x})

TokenCalls == {"refresh", "login"}

\* the token endpoint returned a TokenSuccessResponse to this intercept
ExchangeSucceeded(tr) ==
    \E i \in 1..Len(tr) - 1 :
        tr[i] \in TokenCalls /\ tr[i + 1] = "TokenSuccessResponse"

\* the refresh call of this intercept returned a TokenSuccessResponse
RefreshSucceeded(tr) ==
    \E i \in 1..Len(tr) - 1 :
        tr[i] = "refresh" /\ tr[i + 1] = "TokenSuccessResponse"

\* C1: when the first call_next returns a status other than 401, __call__
\* returns that very response in the same step, call_next has been called
\* once, no refresh or login call was made and the AuthState is unchanged.
C1_NonUnauthorizedPassThrough ==
    [][\A p \in Procs :
          (pc[p] = "next1" /\ response'[p] # NoResponse
              /\ response'[p].status # 401)
          => /\ pc'[p] = "done"
             /\ result'[p] = response'[p]
             /\ result'[p].call = 1
             /\ raised'[p] = None
             /\ trace'[p] = <<"next", "next_ret">>
             /\ auth_state' = auth_state]_vars

C1_Witness ==
    \E p \in Procs :
        /\ pc[p] = "done"
        /\ response[p] = [status |-> 200, call |-> 1]
        /\ result[p] = response[p]

\* C2: after a 401 the login call is started only from the refresh step:
\* either refresh was inapplicable when the 401 arrived (no refresh token)
\* or the refresh call has just ended without a token response; refresh is
\* never called after login; and once the refresh call returned a
\* TokenSuccessResponse the intercept never calls login.
C2_RefreshBeforeLogin ==
    [][\A p \in Procs :
          /\ (pc[p] # "login" /\ pc'[p] = "login")
             => \/ /\ pc[p] = "next1"
                   /\ response'[p].status = 401
                   /\ auth_state.refresh_token = None
                   /\ "refresh" \notin Range(trace'[p])
                \/ /\ pc[p] = "refresh"
                   /\ trace'[p][Len(trace[p]) + 1]
                         \in {"UnexpectedResponse", "TokenErrorResponse"}
          /\ (pc[p] = "next1" /\ response'[p].status = 401
                /\ auth_state.refresh_token # None)
             => pc'[p] = "refresh"
          /\ (pc[p] = "login") => pc'[p] # "refresh"
          /\ RefreshSucceeded(trace'[p])
             => "login" \notin Range(trace'[p]) /\ pc'[p] # "login"]_vars

C2_Witness ==
    \E p \in Procs :
        /\ pc[p] = "done"
        /\ trace[p] = <<"next", "next_ret", "refresh", "TokenSuccessResponse",
                        "next", "next_ret">>

\* C3: once refresh or login returned a TokenSuccessResponse, call_next is
\* called one more time (two calls in all), nothing else is called after
\* it, and the response of that second call is the result, a 401 included.
C3_SingleRetry ==
    \A p \in Procs :
        ExchangeSucceeded(trace[p])
        => /\ Count(trace[p], "next") = 2
           /\ Count(trace[p], "TokenSuccessResponse") = 1
           /\ \E i \in 1..Len(trace[p]) :
                 /\ trace[p][i] = "TokenSuccessResponse"
                 /\ SubSeq(trace[p], i + 1, Len(trace[p]))
                       \in {<<"next">>, <<"next", "next_ret">>,
                            <<"next", "next_raise">>}
           /\ pc[p] \in {"next2", "done", "raised"}
           /\ pc[p] = "done"
              => /\ result[p] \in [status : Statuses, call : {2}]
                 /\ trace[p][Len(trace[p])] = "next_ret"
           /\ pc[p] = "raised" => trace[p][Len(trace[p])] = "next_raise"

C3_Witness ==
    \E p \in Procs :
        /\ pc[p] = "done"
        /\ ExchangeSucceeded(trace[p])
        /\ result[p] = [status |-> 401, call |-> 2]

\* C4: when the first call_next returned 401 and the recovery is over with
\* no token response obtained and no other exception raised, __call__ has
\* returned the first response (the 401), call_next was called once and
\* nothing was raised.
C4_OriginalUnauthorizedReturned ==
    \A p \in Procs :
        (/\ response[p].status = 401
         /\ pc[p] \notin {"refresh", "login"}
         /\ ~ExchangeSucceeded(trace[p])
         /\ "ConnectError" \notin Range(trace[p]))
        => /\ pc[p] = "done"
           /\ result[p] = response[p]
           /\ result[p] = [status |-> 401, call |-> 1]
           /\ raised[p] = None
           /\ Count(trace[p], "next") = 1

C4_Witness ==
    \E p \in Procs :
        /\ pc[p] = "done"
        /\ result[p] = [status |-> 401, call |-> 1]
        /\ trace[p] = <<"next", "next_ret", "refresh", "UnexpectedResponse",
                        "login", "UnexpectedResponse">>

\* C5: when the refresh call raises UnexpectedResponse, nothing is raised
\* out of __call__; login is tried in the same step: the login call is made
\* when username and password are present, and the 401 is returned if not.
C5_RefreshFailureFallsBackToLogin ==
    [][\A p \in Procs :
          (/\ pc[p] = "refresh"
           /\ Len(trace'[p]) > Len(trace[p])
           /\ trace'[p][Len(trace[p]) + 1] = "UnexpectedResponse")
          => /\ pc'[p] # "raised"
             /\ raised'[p] = None
             /\ (auth_state.username # None /\ auth_state.password # None)
                => /\ pc'[p] = "login"
                   /\ trace'[p] = trace[p] \o <<"UnexpectedResponse", "login">>
                   /\ payload'[p].type = "AccessTokenRequest"
                   /\ payload'[p].username = auth_state.username
                   /\ payload'[p].password = auth_state.password
             /\ (auth_state.username = None \/ auth_state.password = None)
                => /\ pc'[p] = "done"
                   /\ result'[p] = response[p]]_vars

C5_Witness ==
    \E p \in Procs :
        /\ pc[p] = "login"
        /\ trace[p] = <<"next", "next_ret", "refresh", "UnexpectedResponse",
                        "login">>

\* C6: when a refresh or login call raises an exception other than
\* UnexpectedResponse, that exception leaves __call__ as it is: the
\* intercept ends there, with no login after a refresh that raised it, no
\* second call_next and no response returned.
C6_OtherErrorsPropagate ==
    \A p \in Procs :
        "ConnectError" \in Range(trace[p])
        => /\ pc[p] = "raised"
           /\ raised[p] = "ConnectError"
           /\ result[p] = NoResponse
           /\ trace[p][Len(trace[p])] = "ConnectError"
           /\ trace[p][Len(trace[p]) - 1] \in TokenCalls
           /\ Count(trace[p], "ConnectError") = 1
           /\ Count(trace[p], "next") = 1
           /\ trace[p][Len(trace[p]) - 1] = "refresh"
              => "login" \notin Range(trace[p])

C6_Witness ==
    \E p \in Procs :
        /\ pc[p] = "raised"
        /\ raised[p] = "ConnectError"
        /\ auth_state.username # None /\ auth_state.password # None
        /\ trace[p] = <<"next", "next_ret", "refresh", "ConnectError">>

\* C7: the step that starts the first call_next leaves a header the caller
\* set as it is, sets "bearer T" when the request has no header and the
\* state has the access token T, and leaves the request without a header
\* when the state has no access token.
C7_PreflightAttach ==
    [][\A p \in Procs :
          (pc[p] = "ready" /\ pc'[p] # "ready")
          => /\ pc'[p] = "next1"
             /\ headers[p] # None => headers'[p] = headers[p]
             /\ (headers[p] = None /\ auth_state.access_token # None)
                => headers'[p] = "bearer " \o auth_state.access_token
             /\ (headers[p] = None /\ auth_state.access_token = None)
                => headers'[p] = None]_vars

C7_Witness ==
    \E p, q \in Procs :
        /\ pc[p] = "next1" /\ headers[p] = "custom"
        /\ pc[q] = "next1" /\ headers[q] = "bearer T0"
        /\ auth_state.access_token = "T0"

\* C8: the step that starts the second call_next sets the header to
\* "bearer " and the access token of the token response just returned,
\* whatever the header was, and the request keeps that header while the
\* second call is in flight.
C8_RetryHeaderReplaced ==
    [][\A p \in Procs :
          /\ (pc[p] # "next2" /\ pc'[p] = "next2")
             => /\ trace'[p][Len(trace[p]) + 1] = "TokenSuccessResponse"
                /\ tokens'[p] \in TokenSuccessResponses
                /\ auth_state'.access_token = tokens'[p].access_token
                /\ headers'[p] = "bearer " \o tokens'[p].access_token
          /\ (pc[p] = "next2" /\ pc'[p] \in {"next2", "done", "raised"})
             => /\ headers'[p] = headers[p]
                /\ tokens'[p] = tokens[p]]_vars

C8_Witness ==
    \E p \in Procs :
        /\ pc[p] = "next2"
        /\ tokens[p].access_token = "T2"
        /\ headers[p] = "bearer T2"

Calls == {"next", "refresh", "login"}

Returns ==
    {"next_ret", "next_raise", "TokenSuccessResponse", "TokenErrorResponse",
     "UnexpectedResponse", "ConnectError"}

\* C9: an intercept makes at most two call_next calls, at most one refresh
\* call and at most one login call, the refresh before the login; a call is
\* started only when the call before it has ended; and the token calls come
\* after the first call_next has returned and before the second is started.
C9_BoundedSequentialCalls ==
    \A p \in Procs :
        LET tr == trace[p]
        IN /\ Count(tr, "next") <= 2
           /\ Count(tr, "refresh") <= 1
           /\ Count(tr, "login") <= 1
           /\ \A i \in 1..Len(tr) :
                 /\ (i % 2 = 1) <=> tr[i] \in Calls
                 /\ (i % 2 = 0) <=> tr[i] \in Returns
           /\ (pc[p] \in {"next1", "refresh", "login", "next2"})
                 <=> (Len(tr) % 2 = 1)
           /\ \A i, j \in 1..Len(tr) :
                 (tr[i] = "refresh" /\ tr[j] = "login") => i < j
           /\ \A i \in 1..Len(tr) :
                 tr[i] \in TokenCalls
                 => /\ i >= 3
                    /\ tr[1] = "next" /\ tr[2] = "next_ret"
                    /\ \A j \in 2..i : tr[j] # "next"

C9_Witness ==
    \E p \in Procs :
        /\ pc[p] = "done"
        /\ trace[p] = <<"next", "next_ret", "refresh", "UnexpectedResponse",
                        "login", "TokenSuccessResponse", "next", "next_ret">>

\* C10: refresh_token_request is None without a refresh token and
\* access_token_request is None without a username or a password; a refresh
\* call is started only with a refresh token in the state and a login call
\* only with a username and a password; and a 401 that finds no refresh
\* token but a username and a password starts the login call at once, the
\* one login call of an intercept that makes no refresh call.
C10_InapplicableExchangeIsNoOp ==
    [][\A p \in Procs :
          /\ auth_state.refresh_token = None
             => refresh_token_request(auth_state) = NoRequest
          /\ (auth_state.username = None \/ auth_state.password = None)
             => access_token_request(auth_state) = NoRequest
          /\ (pc[p] # "refresh" /\ pc'[p] = "refresh")
             => /\ auth_state.refresh_token # None
                /\ payload'[p].refresh_token = auth_state.refresh_token
          /\ (pc[p] # "login" /\ pc'[p] = "login")
             => /\ auth_state.username # None /\ auth_state.password # None
                /\ payload'[p].username = auth_state.username
                /\ payload'[p].password = auth_state.password
          /\ (pc[p] = "next1" /\ response'[p].status = 401
                /\ auth_state.refresh_token = None)
             => IF auth_state.username # None /\ auth_state.password # None
                THEN /\ pc'[p] = "login"
                     /\ trace'[p] = <<"next", "next_ret", "login">>
                ELSE /\ pc'[p] = "done"
                     /\ trace'[p] = <<"next", "next_ret">>
          /\ (Len(trace'[p]) >= 3 /\ trace'[p][3] = "login")
             => /\ Count(trace'[p], "login") = 1
                /\ Count(trace'[p], "refresh") = 0]_vars

C10_Witness ==
    \E p \in Procs :
        /\ pc[p] = "done"
        /\ trace[p] = <<"next", "next_ret", "login", "TokenSuccessResponse",
                        "next", "next_ret">>

\* the access token, the refresh token and the scope of an AuthState or of a
\* token response
Triple(x) == <<x.access_token, x.refresh_token, x.scope>>

\* C11: in every state the middleware reaches, update(r) leaves exactly the
\* access token, refresh token and scope of r, absent where r has none, and
\* update(r1) followed by update(r2) leaves those of r2, for all token
\* responses r1 and r2; the step that applies a token response leaves the
\* state with the three fields of that response.
C11_UpdateOverwrites ==
    [][/\ \A r1, r2 \in TokenSuccessResponses :
             /\ Triple(update(auth_state, r1)) = Triple(r1)
             /\ Triple(update(update(auth_state, r1), r2)) = Triple(r2)
       /\ \A p \in Procs :
             (pc[p] # "next2" /\ pc'[p] = "next2")
             => Triple(auth_state') = Triple(tokens'[p])]_vars

\* two responses were applied one after the other, the second without a
\* refresh token and a scope: nothing of the first is left
C11_Witness ==
    \E p, q \in Procs :
        /\ tokens[p] = TokenSuccessResponse("T1", "R1", "S1")
        /\ tokens[q] = TokenSuccessResponse("T2", None, None)
        /\ Triple(auth_state) = <<"T2", None, None>>

\* the step in which coroutine p obtains a token response and applies it
Exchanged(p) == pc[p] \in {"refresh", "login"} /\ pc'[p] = "next2"

\* C12: with several requests in flight the last update wins: a coroutine
\* that obtains a token response overwrites the three fields with those of
\* its own response, also when another coroutine in flight has stored its
\* response before, and the fields stay as the last writer left them until
\* the next token response is applied.
C12_LastWriterWins ==
    [][/\ \A p \in Procs :
             (Exchanged(p) /\ \E q \in Procs \ {p} : pc[q] = "next2")
             => /\ Triple(auth_state') = Triple(tokens'[p])
                /\ \A q \in Procs \ {p} : tokens'[q] = tokens[q]
       /\ (\A p \in Procs : ~Exchanged(p))
             => Triple(auth_state') = Triple(auth_state)]_vars

\* two requests in flight have each applied a different response; the one
\* of coroutine 2 was refreshed while coroutine 1 had not yet removed the
\* refresh token, and was applied last
C12_Witness ==
    /\ pc[1] = "next2" /\ pc[2] = "next2"
    /\ tokens[1] = TokenSuccessResponse("T2", None, None)
    /\ tokens[2] = TokenSuccessResponse("T1", "R1", "S1")
    /\ "refresh" \in Range(trace[2])
    /\ Triple(auth_state) = Triple(tokens[2])

\* the other outcome of the same race: the response of coroutine 1 was
\* applied last
C12_WitnessOther ==
    /\ pc[1] = "next2" /\ pc[2] = "next2"
    /\ tokens[1] = TokenSuccessResponse("T2", None, None)
    /\ tokens[2] = TokenSuccessResponse("T1", "R1", "S1")
    /\ "refresh" \in Range(trace[2])
    /\ Triple(auth_state) = Triple(tokens[1])

\* C13: nothing serialises the exchanges: a coroutine that receives a 401
\* while the token call of another coroutine is in flight starts its own
\* token call all the same, a refresh with the refresh token the state holds
\* at that moment (the one the other call may be presenting), or else a
\* login when username and password are present.
C13_NoSingleFlight ==
    [][\A p \in Procs :
          (/\ pc[p] = "next1"
           /\ response'[p].status = 401
           /\ \E q \in Procs \ {p} : pc[q] \in {"refresh", "login"})
          => /\ auth_state.refresh_token # None
                => /\ pc'[p] = "refresh"
                   /\ payload'[p].refresh_token = auth_state.refresh_token
             /\ (auth_state.refresh_token = None
                   /\ auth_state.username # None /\ auth_state.password # None)
                => pc'[p] = "login"
             /\ \A q \in Procs \ {p} :
                   pc'[q] = pc[q] /\ payload'[q] = payload[q]]_vars

\* every coroutine has its own refresh call in flight, all of them
\* presenting the same refresh token
C13_Witness ==
    \A p \in Procs :
        /\ pc[p] = "refresh"
        /\ payload[p].refresh_token = "R0"

\* the triples one source can give: the state as constructed, or one token
\* response
SourceTriples ==
    (InitAccessTokens \X InitRefreshTokens \X InitScopes)
        \cup {Triple(r) : r \in TokenSuccessResponses}

\* C14: in every reachable state the access token, the refresh token and
\* the scope of the state are those of one source, the state as constructed
\* or one token response, never a mixture; and the refresh token and scope
\* of every refresh request in flight, and the scope of every login request
\* in flight, are those of one source.
C14_CoherentState ==
    /\ Triple(auth_state) \in SourceTriples
    /\ \A p \in Procs :
          /\ pc[p] = "refresh"
             => /\ payload[p].type = "RefreshTokenRequest"
                /\ \E t \in SourceTriples :
                      /\ t[2] # None
                      /\ payload[p].refresh_token = t[2]
                      /\ payload[p].scope = t[3]
          /\ pc[p] = "login"
             => /\ payload[p].type = "AccessTokenRequest"
                /\ payload[p].username = auth_state.username
                /\ payload[p].password = auth_state.password
                /\ \E t \in SourceTriples : payload[p].scope = t[3]

\* a refresh request built from the response another coroutine in flight
\* has just stored
C14_Witness ==
    \E p, q \in Procs :
        /\ pc[q] = "next2"
        /\ tokens[q] = TokenSuccessResponse("T1", "R1", "S1")
        /\ pc[p] = "refresh"
        /\ payload[p].refresh_token = "R1"
        /\ payload[p].scope = "S1"

\* C15: no step of the middleware changes username or password, so in
\* every reachable state they are the values the state was constructed
\* with.
C15_CredentialsNeverChange ==
    [][/\ auth_state'.username = auth_state.username
       /\ auth_state'.password = auth_state.password]_vars

\* a login has succeeded and the state was updated, with username and
\* password still in place
C15_Witness ==
    \E p \in Procs :
        /\ pc[p] = "done"
        /\ trace[p] = <<"next", "next_ret", "login", "TokenSuccessResponse",
                        "next", "next_ret">>
        /\ Triple(auth_state) = Triple(tokens[p])
        /\ auth_state.username = "alice"
        /\ auth_state.password = "secret"

\* C16: a token response without a refresh token leaves the state without
\* one, whatever it held; and a 401 that arrives while the state is as such
\* a response left it starts no refresh call: it starts the login call when
\* username and password are present and returns the 401 when not.
C16_NoRefreshTokenMeansLogin ==
    [][\A p \in Procs :
          /\ (Exchanged(p) /\ tokens'[p].refresh_token = None)
             => auth_state'.refresh_token = None
          /\ (/\ pc[p] = "next1"
              /\ response'[p].status = 401
              /\ \E r \in TokenSuccessResponses :
                    r.refresh_token = None /\ Triple(auth_state) = Triple(r))
             => /\ "refresh" \notin Range(trace'[p])
                /\ IF auth_state.username # None /\ auth_state.password # None
                   THEN /\ pc'[p] = "login"
                        /\ trace'[p] = <<"next", "next_ret", "login">>
                   ELSE /\ pc'[p] = "done"
                        /\ result'[p] = [status |-> 401, call |-> 1]]_vars

\* a request that was sent with the token of a response without a refresh
\* token (attached pre-flight) got a 401 and went straight to login
C16_Witness ==
    \E p \in Procs :
        /\ pc[p] = "login"
        /\ headers[p] = "bearer T2"
        /\ trace[p] = <<"next", "next_ret", "login">>
        /\ Triple(auth_state) = <<"T2", None, None>>

\* C17: when every awaited call returns or raises, every intercept ends:
\* a coroutine that has started its first call_next gets to return a
\* response or to let an exception out, whatever the statuses and the token
\* endpoint's answers are.
C17_InterceptTerminates ==
    \A p \in Procs :
        (pc[p] \in {"next1", "refresh", "login", "next2"})
            ~> (pc[p] \in {"done", "raised"})

\* the server answered 401 to the request and to its retry and accepted the
\* exchange in between: the intercept has returned the second 401
C17_Witness ==
    \E p \in Procs :
        /\ pc[p] = "done"
        /\ response[p].status = 401
        /\ result[p] = [status |-> 401, call |-> 2]
        /\ tokens[p] \in TokenSuccessResponses

\* C18: the access token, the refresh token and the scope change only in
\* the step in which a token call returns a TokenSuccessResponse, and then
\* to the fields of that response; every other step leaves them as they
\* were, the step of a refresh call raising UnexpectedResponse among them,
\* and a refresh call started later presents the refresh token the state
\* still holds.
C18_TokensChangeOnlyOnSuccess ==
    [][/\ Triple(auth_state') # Triple(auth_state)
          => \E p \in Procs :
                /\ Exchanged(p)
                /\ trace'[p][Len(trace[p]) + 1] = "TokenSuccessResponse"
                /\ Triple(auth_state') = Triple(tokens'[p])
       /\ \A p \in Procs :
             /\ (/\ pc[p] \in {"refresh", "login"}
                 /\ Len(trace'[p]) > Len(trace[p])
                 /\ trace'[p][Len(trace[p]) + 1] # "TokenSuccessResponse")
                => auth_state' = auth_state
             /\ (pc[p] \in {"next1", "next2"} /\ pc'[p] # pc[p])
                => auth_state' = auth_state
             /\ (pc[p] # "refresh" /\ pc'[p] = "refresh")
                => payload'[p].refresh_token = auth_state.refresh_token]_vars

\* a refresh presenting R0 was rejected with UnexpectedResponse; the state
\* still holds R0 and another refresh call presents it
C18_Witness ==
    \E p, q \in Procs :
        /\ pc[p] = "done"
        /\ trace[p] = <<"next", "next_ret", "refresh", "UnexpectedResponse">>
        /\ auth_state.refresh_token = "R0"
        /\ pc[q] = "refresh"
        /\ payload[q].refresh_token = "R0"

\* C19: while the retry of a request is in flight, and after it has
\* returned, the request carries "bearer " and the access token of the
\* token response its own coroutine obtained, whatever access token the
\* state holds by then.
C19_RetryCarriesOwnToken ==
    \A p \in Procs :
        (pc[p] = "next2" \/ (pc[p] = "done" /\ result[p].call = 2))
        => /\ tokens[p] \in TokenSuccessResponses
           /\ headers[p] = "bearer " \o tokens[p].access_token

\* the retry of a request is in flight with the token its coroutine
\* obtained while another coroutine has since stored a different one
C19_Witness ==
    \E p \in Procs :
        /\ pc[p] = "next2"
        /\ tokens[p].access_token = "T1"
        /\ headers[p] = "bearer T1"
        /\ auth_state.access_token = "T2"

\* C20: the token attached pre-flight to a request without an authorization
\* header is the access token of the last TokenSuccessResponse the token
\* endpoint returned, or the one the state was constructed with when no
\* exchange has succeeded (no header when that one is absent).
C20_PreflightUsesLatestToken ==
    [][\A p \in Procs :
          (pc[p] = "ready" /\ pc'[p] = "next1" /\ headers[p] = None)
          => headers'[p] =
                IF last_exchange = None THEN None
                ELSE "bearer " \o last_exchange]_vars

\* intercepts run one after the other on one coroutine: the first ended
\* with a recovery that obtained T1, and the request that follows is on its
\* first call_next with "bearer T1"
C20_Witness ==
    /\ started = 2
    /\ \A q \in Procs \ {1} : pc[q] = "idle"
    /\ pc[1] = "next1"
    /\ headers[1] = "bearer T1"
    /\ last_exchange = "T1"

====
